---- MODULE Spec2Model ----
(***************************************************************************)
(* Model of clean.py: the border correction of NER spans (fix_borders with *)
(* its nested fix_char_index, fix_parenthesis and fix_borders_main), the   *)
(* label noise stripper (remove_ner_noise) and the deduplicator            *)
(* (deduplicate).                                                          *)
(*                                                                         *)
(* A text is a sequence of one-character strings; Python's 0-based index p *)
(* is element p + 1 of the sequence.  A span (an "ent") is a triple        *)
(* <<start, end, label>>, a label is a sequence of code points.            *)
(***************************************************************************)
EXTENDS Integers, Sequences, FiniteSets, TLC

VARIABLES
    text,          \* the record's text ("text_raw")
    ent_list,      \* the span list handed to the function under study
    ent_list_new,  \* the list the function builds and returns
    pc,            \* position in the code
    k,             \* fix_borders_main: position of `ent` in ent_list
    i_is_start,    \* fix_char_index: the mode argument
    i,             \* fix_char_index: the index argument after the shift by one
    i_current,     \* fix_char_index: the position under test
    i_step,        \* fix_char_index: the next signed step
    i_corrected,   \* fix_char_index: the border the loop found
    probes,        \* history: the offsets i_current - i tested so far
    start_fixed,   \* fix_borders_main: result of fix_char_index(text, ent[0], True)
    end_fixed,     \* fix_borders_main: result of fix_char_index(text, ent[1], False)
    pass,          \* which application of fix_borders is running (1 or 2)
    first_out,     \* what the first application returned
    other_out      \* result of the function on a second input (a permutation)

vars == <<text, ent_list, ent_list_new, pc, k, i_is_start, i, i_current, i_step,
          i_corrected, probes, start_fixed, end_fixed, pass, first_out, other_out>>

---------------------------------------------------------------------------
(* Bounds of the model *)

\* longest text
MaxLen == 5
\* longest text whose record holds two spans instead of one
MaxPairLen == 2
\* longest label given to remove_ner_noise
MaxLabelLen == 2
\* longest span list given to remove_ner_noise
MaxNoiseEnts == 2
\* longest span list given to deduplicate
MaxEnts == 3

---------------------------------------------------------------------------
(* Characters and texts *)

\* The characters a text is made of: a word character, a space, a period and
\* the two parentheses.
Alphabet == {"a", " ", ".", "(", ")"}

Texts == UNION {[1..n -> Alphabet] : n \in 0..MaxLen}

Abs(n) == IF n < 0 THEN -n ELSE n

\* text[p] of Python, p in range
At(s, p) == s[p + 1]

\* text[a:b] of Python for 0 <= a, 0 <= b (an empty string when a >= b)
Slice(s, a, b) ==
    LET lo == IF a > Len(s) THEN Len(s) ELSE a
        hi == IF b > Len(s) THEN Len(s) ELSE b
    IN  IF lo >= hi THEN << >> ELSE SubSeq(s, lo + 1, hi)

\* str.count of a single character
Count(s, c) == Cardinality({p \in 1..Len(s) : s[p] = c})

\* re.compile(r'[\w\d]', re.U).match(s) on one character
is_char(c) == c \in {"a"}

is_not_char(c) == ~ is_char(c)

\* text = " " + text + " "
Padded(t) == <<" ">> \o t \o <<" ">>

\* the lambda is_border chosen by i_is_start
is_border(start, a, b) ==
    IF start THEN is_not_char(a) /\ is_char(b)
             ELSE is_char(a) /\ is_not_char(b)

\* the loop's test: i_a >= 0 and i_b < len(text) and is_border(text[i_a], text[i_b])
BorderAt(padded, start, cur) ==
    /\ cur - 1 >= 0
    /\ cur < Len(padded)
    /\ is_border(start, At(padded, cur - 1), At(padded, cur))

\* re.compile(r'^\. *$', re.U).match(text[p:]): a period, then spaces only
SentenceFinal(padded, p) ==
    /\ At(padded, p) = "."
    /\ \A q \in (p + 1)..(Len(padded) - 1) : At(padded, q) = " "

\* fix_char_index without its abbreviation rule
FixCharIndexReturnNoOverride(padded, corrected) == corrected - 1

\* fix_char_index returning the index of the padded text
FixCharIndexReturnNoShift(padded, corrected) ==
    IF At(padded, corrected) = "." /\ ~ SentenceFinal(padded, corrected)
    THEN corrected + 1
    ELSE corrected

\* the end of fix_char_index: the abbreviation rule and the shift back
FixCharIndexReturn(padded, corrected) ==
    IF At(padded, corrected) = "." /\ ~ SentenceFinal(padded, corrected)
    THEN corrected + 1 - 1
    ELSE corrected - 1

\* the step update without the growth of the step
NextStepNoGrowth(step) == step * (-1)

\* the step update of the loop's else branch
NextStep(step) == (IF step > 0 THEN step + 1 ELSE step - 1) * (-1)

\* The loop has no bound of its own.  The step grows by one with every test, so
\* once it is longer than twice the padded text every position of the padded
\* text has been tested and every later one lies outside it on either side,
\* where the test cannot succeed; the model follows the loop up to here.
SearchCap(t) == 2 * (Len(t) + 2)

\* fix_parenthesis with the right-hand test written i_b < len(text)
FixParenthesisToTextEnd(ent, t) ==
    LET i_a == ent[1]
        i_b == ent[2]
        text_sub == Slice(t, i_a, i_b)
        left == /\ i_a > 0
                /\ At(t, i_a - 1) = "("
                /\ Count(text_sub, ")") > Count(text_sub, "(")
        right == /\ i_b < Len(t)
                 /\ At(t, i_b) = ")"
                 /\ Count(text_sub, "(") > Count(text_sub, ")")
        ent_1 == IF left THEN <<i_a - 1, i_b, ent[3]>> ELSE ent
    IN  IF right THEN <<i_a, i_b + 1, ent[3]>> ELSE ent_1

\* fix_parenthesis(ent, text); it is only called with 0 <= ent[0], 0 <= ent[1]
fix_parenthesis(ent, t) ==
    LET i_a == ent[1]
        i_b == ent[2]
        text_sub == Slice(t, i_a, i_b)
        left == /\ i_a > 0
                /\ At(t, i_a - 1) = "("
                /\ Count(text_sub, ")") > Count(text_sub, "(")
        right == /\ i_b < Len(t) - 1
                 /\ At(t, i_b) = ")"
                 /\ Count(text_sub, "(") > Count(text_sub, ")")
        ent_1 == IF left THEN <<i_a - 1, i_b, ent[3]>> ELSE ent
    IN  IF right THEN <<i_a, i_b + 1, ent[3]>> ELSE ent_1

\* the assertion at the end of each iteration of fix_borders_main
AssertionHolds(ent, t) ==
    LET sub == Slice(t, ent[1], ent[2])
    IN  ~ (   (Len(sub) > 0 /\ sub[1] = " ")
           \/ (Len(sub) > 0 /\ sub[Len(sub)] = " "))

---------------------------------------------------------------------------
(* fix_borders: one record, span by span *)

\* the label of the spans given to fix_borders ("L")
BorderLabel == <<76>>

\* 0 <= start < end <= len(text)
WellFormed(ent, t) == 0 <= ent[1] /\ ent[1] < ent[2] /\ ent[2] <= Len(t)

\* The spans a record may hold: every well-formed one, and four malformed
\* ones: the empty span at either end of the text, and two spans that reach one
\* position outside the text.
Spans(t) ==
    UNION {{<<s, e, BorderLabel>> : e \in (s + 1)..Len(t)} : s \in 0..Len(t)}
    \cup {<<0, 0, BorderLabel>>, <<Len(t), Len(t), BorderLabel>>,
          <<-1, Len(t), BorderLabel>>, <<0, Len(t) + 1, BorderLabel>>}

\* The span lists of a record: one span, and for a short text also two.
EntLists(t) ==
    {<<ent>> : ent \in Spans(t)}
    \cup (IF Len(t) <= MaxPairLen
          THEN {<<e1, e2>> : e1 \in Spans(t), e2 \in Spans(t)}
          ELSE {})

\* the variables of fix_char_index and fix_borders_main before any call
Idle ==
    /\ k = 1
    /\ i_is_start = TRUE
    /\ i = 0
    /\ i_current = 0
    /\ i_step = 0
    /\ i_corrected = 0
    /\ probes = << >>
    /\ start_fixed = 0
    /\ end_fixed = 0
    /\ pass = 1
    /\ first_out = << >>
    /\ other_out = << >>

InitBorders ==
    /\ text \in Texts
    /\ ent_list \in EntLists(text)
    /\ ent_list_new = << >>
    /\ pc = "fix_start"
    /\ Idle

\* fix_char_index up to its loop: pad, shift the index, choose the first step
EnterFixCharIndex ==
    /\ pc \in {"fix_start", "fix_end"}
    /\ i_is_start' = (pc = "fix_start")
    /\ i' = (IF pc = "fix_start" THEN ent_list[k][1] ELSE ent_list[k][2]) + 1
    /\ i_current' = i'
    /\ i_step' = IF pc = "fix_start" THEN -1 ELSE 1
    /\ probes' = << >>
    /\ pc' = "search"
    /\ UNCHANGED <<text, ent_list, ent_list_new, k, i_corrected, start_fixed,
                   end_fixed, pass, first_out, other_out>>

\* one iteration of the loop that finds a border
SearchFound ==
    /\ pc = "search"
    /\ BorderAt(Padded(text), i_is_start, i_current)
    /\ i_corrected' = i_current
    /\ probes' = Append(probes, i_current - i)
    /\ pc' = "found"
    /\ UNCHANGED <<text, ent_list, ent_list_new, k, i_is_start, i, i_current,
                   i_step, start_fixed, end_fixed, pass, first_out, other_out>>

\* one iteration of the loop that finds none and moves on
SearchMiss ==
    /\ pc = "search"
    /\ ~ BorderAt(Padded(text), i_is_start, i_current)
    /\ Abs(i_step) <= SearchCap(text)
    /\ i_current' = i_current + i_step
    /\ i_step' = NextStep(i_step)
    /\ probes' = Append(probes, i_current - i)
    /\ UNCHANGED <<text, ent_list, ent_list_new, pc, k, i_is_start, i,
                   i_corrected, start_fixed, end_fixed, pass, first_out, other_out>>

\* the abbreviation rule and the return to fix_borders_main
ReturnFixCharIndex ==
    /\ pc = "found"
    /\ IF i_is_start
       THEN /\ start_fixed' = FixCharIndexReturn(Padded(text), i_corrected)
            /\ pc' = "fix_end"
            /\ UNCHANGED end_fixed
       ELSE /\ end_fixed' = FixCharIndexReturn(Padded(text), i_corrected)
            /\ pc' = "parenthesis"
            /\ UNCHANGED start_fixed
    /\ UNCHANGED <<text, ent_list, ent_list_new, k, i_is_start, i, i_current,
                   i_step, i_corrected, probes, pass, first_out, other_out>>

\* the rest of the loop body of fix_borders_main: fix_parenthesis, append,
\* the assertion, and the next span or the return
FinishEnt ==
    /\ pc = "parenthesis"
    /\ LET ent_new == fix_parenthesis(<<start_fixed, end_fixed, ent_list[k][3]>>, text)
       IN  /\ ent_list_new' = Append(ent_list_new, ent_new)
           /\ IF ~ AssertionHolds(ent_new, text)
              THEN pc' = "assertion_error" /\ UNCHANGED <<k, first_out>>
              ELSE IF k < Len(ent_list)
              THEN pc' = "fix_start" /\ k' = k + 1 /\ UNCHANGED first_out
              ELSE /\ pc' = "returned"
                   /\ UNCHANGED k
                   /\ first_out' = IF pass = 1 THEN ent_list_new' ELSE first_out
    /\ UNCHANGED <<text, ent_list, i_is_start, i, i_current, i_step, i_corrected,
                   probes, start_fixed, end_fixed, pass, other_out>>

\* fix_borders applied to what fix_borders returned
Reapply ==
    /\ pc = "returned"
    /\ pass = 1
    /\ pass' = 2
    /\ ent_list' = ent_list_new
    /\ ent_list_new' = << >>
    /\ k' = 1
    /\ pc' = "fix_start"
    /\ UNCHANGED <<text, i_is_start, i, i_current, i_step, i_corrected, probes,
                   start_fixed, end_fixed, first_out, other_out>>

NextBorders ==
    \/ EnterFixCharIndex
    \/ SearchFound
    \/ SearchMiss
    \/ ReturnFixCharIndex
    \/ FinishEnt
    \/ Reapply

Spec == InitBorders /\ [][NextBorders]_vars

---------------------------------------------------------------------------
(* fix_parenthesis on its own: any text, any pair of offsets in it *)

InitParenthesis ==
    /\ text \in Texts
    /\ ent_list \in {<<<<s, e, BorderLabel>>>> : s \in 0..Len(text), e \in 0..Len(text)}
    /\ ent_list_new = << >>
    /\ pc = "parenthesis_call"
    /\ Idle

CallFixParenthesis ==
    /\ pc = "parenthesis_call"
    /\ ent_list_new' = <<fix_parenthesis(ent_list[1], text)>>
    /\ pc' = "parenthesis_done"
    /\ UNCHANGED <<text, ent_list, k, i_is_start, i, i_current, i_step, i_corrected,
                   probes, start_fixed, end_fixed, pass, first_out, other_out>>

SpecParenthesis == InitParenthesis /\ [][CallFixParenthesis]_vars

---------------------------------------------------------------------------
(* remove_ner_noise *)

Hyphen == 45
Digit == 49
Letter == 65

\* the characters of a label: "-", "1", "A"
LabelAlphabet == {Hyphen, Digit, Letter}

Labels == UNION {[1..n -> LabelAlphabet] : n \in 0..MaxLabelLen}

\* re.sub(r"[-0-9]$", "", label)
StripNoiseOneChar(label) ==
    IF Len(label) > 0 /\ label[Len(label)] \in {Hyphen, Digit}
    THEN SubSeq(label, 1, Len(label) - 1)
    ELSE label

\* re.sub(r"-[0-9]*$", "", label): the match starts at the one hyphen that has
\* digits only between it and the end of the label
StripNoise(label) ==
    LET starts == {p \in 1..Len(label) :
                     /\ label[p] = Hyphen
                     /\ \A q \in (p + 1)..Len(label) : label[q] = Digit}
    IN  IF starts = {}
        THEN label
        ELSE SubSeq(label, 1, (CHOOSE p \in starts : \A q \in starts : p <= q) - 1)

remove_ner_noise(list) ==
    [j \in 1..Len(list) |-> <<list[j][1], list[j][2], StripNoise(list[j][3])>>]

\* a span list for remove_ner_noise: span j starts at j and is as long as its label
NoiseList(ls) == [j \in 1..Len(ls) |-> <<j, j + Len(ls[j]), ls[j]>>]

InitNoise ==
    /\ text = << >>
    /\ \E n \in 0..MaxNoiseEnts : \E ls \in [1..n -> Labels] : ent_list = NoiseList(ls)
    /\ ent_list_new = << >>
    /\ pc = "noise_call"
    /\ Idle

RemoveNoise ==
    /\ pc = "noise_call"
    /\ ent_list_new' = remove_ner_noise(ent_list)
    /\ pc' = "noise_once"
    /\ UNCHANGED <<text, ent_list, k, i_is_start, i, i_current, i_step, i_corrected,
                   probes, start_fixed, end_fixed, pass, first_out, other_out>>

RemoveNoiseAgain ==
    /\ pc = "noise_once"
    /\ first_out' = remove_ner_noise(ent_list_new)
    /\ pc' = "noise_twice"
    /\ UNCHANGED <<text, ent_list, ent_list_new, k, i_is_start, i, i_current, i_step,
                   i_corrected, probes, start_fixed, end_fixed, pass, other_out>>

NextNoise ==
    \/ RemoveNoise
    \/ RemoveNoiseAgain

SpecNoise == InitNoise /\ [][NextNoise]_vars

---------------------------------------------------------------------------
(* deduplicate *)

\* str < str of Python: by code point, a proper prefix first
RECURSIVE LabelLess(_, _)
LabelLess(a, b) ==
    IF Len(b) = 0 THEN FALSE
    ELSE IF Len(a) = 0 THEN TRUE
    ELSE IF a[1] # b[1] THEN a[1] < b[1]
    ELSE LabelLess(Tail(a), Tail(b))

\* key(x) < key(y) for the key lambda x: x[j - 1]
KeyLess(j, x, y) == IF j = 3 THEN LabelLess(x[3], y[3]) ELSE x[j] < y[j]

\* x put behind every element whose key is not greater: what a stable sort does
\* with the next element
RECURSIVE InsertByKey(_, _, _)
InsertByKey(j, x, sorted) ==
    IF sorted = << >> THEN <<x>>
    ELSE IF KeyLess(j, x, sorted[1]) THEN <<x>> \o sorted
    ELSE <<sorted[1]>> \o InsertByKey(j, x, Tail(sorted))

\* list.sort(key=lambda x: x[j - 1]): stable
RECURSIVE SortByKey(_, _)
SortByKey(j, list) ==
    IF list = << >> THEN << >>
    ELSE InsertByKey(j, list[Len(list)], SortByKey(j, SubSeq(list, 1, Len(list) - 1)))

\* the three sorts in the opposite order: by start, then end, then label
ThreeSortsReversed(list) == SortByKey(3, SortByKey(2, SortByKey(1, list)))

\* the three sorts of deduplicate: by label, then end, then start
ThreeSorts(list) == SortByKey(1, SortByKey(2, SortByKey(3, list)))

\* list(ent_set): the elements of the set, each once, in some order
ListsOfSet(set) ==
    {f \in [1..Cardinality(set) -> set] : \A e \in set : \E j \in DOMAIN f : f[j] = e}

\* the reorderings of a list
PermutationsOf(list) ==
    {[j \in 1..Len(list) |-> list[p[j]]] :
        p \in {q \in [1..Len(list) -> 1..Len(list)] :
                 \A a, b \in 1..Len(list) : a # b => q[a] # q[b]}}

Range(list) == {list[j] : j \in 1..Len(list)}

\* the labels of the spans given to deduplicate: "A1", "AA"
DedupLabels == {<<Letter, Digit>>, <<Letter, Letter>>}

DedupSpans == {<<s, e, l>> : s \in 0..1, e \in 2..3, l \in DedupLabels}

DedupLists == UNION {[1..n -> DedupSpans] : n \in 0..MaxEnts}

InitDedup ==
    /\ text = << >>
    /\ ent_list \in DedupLists
    /\ ent_list_new = << >>
    /\ pc = "dedup_call"
    /\ Idle

\* deduplicate(ent_list)
Deduplicate ==
    /\ pc = "dedup_call"
    /\ \E listed \in ListsOfSet(Range(ent_list)) : ent_list_new' = ThreeSorts(listed)
    /\ pc' = "dedup_once"
    /\ UNCHANGED <<text, ent_list, k, i_is_start, i, i_current, i_step, i_corrected,
                   probes, start_fixed, end_fixed, pass, first_out, other_out>>

\* deduplicate(deduplicate(ent_list))
DeduplicateAgain ==
    /\ pc = "dedup_once"
    /\ \E listed \in ListsOfSet(Range(ent_list_new)) : first_out' = ThreeSorts(listed)
    /\ pc' = "dedup_twice"
    /\ UNCHANGED <<text, ent_list, ent_list_new, k, i_is_start, i, i_current, i_step,
                   i_corrected, probes, start_fixed, end_fixed, pass, other_out>>

\* deduplicate(p(ent_list)) for a reordering p
DeduplicatePermuted ==
    /\ pc = "dedup_twice"
    /\ \E permuted \in PermutationsOf(ent_list) :
         \E listed \in ListsOfSet(Range(permuted)) :
            other_out' = <<permuted, ThreeSorts(listed)>>
    /\ pc' = "dedup_permuted"
    /\ UNCHANGED <<text, ent_list, ent_list_new, k, i_is_start, i, i_current, i_step,
                   i_corrected, probes, start_fixed, end_fixed, pass, first_out>>

NextDedup ==
    \/ Deduplicate
    \/ DeduplicateAgain
    \/ DeduplicatePermuted

SpecDedup == InitDedup /\ [][NextDedup]_vars

---------------------------------------------------------------------------
(* Properties of fix_char_index and fix_borders, checked under Spec *)

\* the index fix_char_index was called with
Index == i - 1

\* C1 (as claimed): for an index inside the text the search loop ends and the
\* value returned lies in 0..len(text).  The loop ends only on a position that
\* passes the border test, and every such position is at most len(text) + 1
\* away from the index; a loop still running farther out has tested every
\* position of the padded text in vain and never ends.
C1_SearchTerminates ==
    /\ (pc = "search" /\ Index \in 0..Len(text))
          => Abs(i_current - i) <= Len(text) + 1
    /\ (pc = "fix_end" /\ ent_list[k][1] \in 0..Len(text))
          => start_fixed \in 0..Len(text)
    /\ (pc = "parenthesis" /\ ent_list[k][2] \in 0..Len(text))
          => end_fixed \in 0..Len(text)

\* C2 (as claimed): every well-formed input span, 0 <= start < end <= len(text),
\* has a well-formed output span: the corrected start lies before the
\* corrected end.
C2_SpanInvariant ==
    pass = 1 =>
      \A j \in 1..Len(ent_list_new) :
         WellFormed(ent_list[j], text) => WellFormed(ent_list_new[j], text)

\* C3: the substring of every span fix_borders_main appends neither begins nor
\* ends with a space, and the assertion never fails.
C3_BoundaryValidity ==
    /\ pc # "assertion_error"
    /\ \A j \in 1..Len(ent_list_new) :
          LET sub == Slice(text, ent_list_new[j][1], ent_list_new[j][2])
          IN  sub # << >> => sub[1] # " " /\ sub[Len(sub)] # " "

\* C3 witness: a span that began with a space came back moved and not empty
C3_Witness ==
    /\ pc = "returned"
    /\ pass = 1
    /\ WellFormed(ent_list[1], text)
    /\ At(text, ent_list[1][1]) = " "
    /\ WellFormed(ent_list_new[1], text)
    /\ ent_list_new[1] # ent_list[1]

\* C4 (as claimed): fix_borders applied to its own result returns that result.
C4_Idempotent ==
    (pc = "returned" /\ pass = 2) => ent_list_new = first_out

\* C7 (as claimed): no corrected span is emitted for a malformed input span
\* (an offset outside the text, or start >= end).
C7_MalformedRejected ==
    pass = 1 =>
      \A j \in 1..Len(ent_list_new) : WellFormed(ent_list[j], text)

\* C9 (as claimed): an index that is a border of its mode is returned
\* unchanged, also when the character at the index is a period.
C9_BorderIndexUnchanged ==
    /\ (/\ pc = "fix_end"
        /\ ent_list[k][1] \in 0..Len(text)
        /\ BorderAt(Padded(text), TRUE, ent_list[k][1] + 1))
          => start_fixed = ent_list[k][1]
    /\ (/\ pc = "parenthesis"
        /\ ent_list[k][2] \in 0..Len(text)
        /\ BorderAt(Padded(text), FALSE, ent_list[k][2] + 1))
          => end_fixed = ent_list[k][2]

\* C9 (amended): an index that is a border of its mode is returned unchanged,
\* except an END border on a period that text other than spaces follows: there
\* the index after the period is returned.
C9_BorderIndexUnchangedButPeriod ==
    /\ (/\ pc = "fix_end"
        /\ ent_list[k][1] \in 0..Len(text)
        /\ BorderAt(Padded(text), TRUE, ent_list[k][1] + 1))
          => start_fixed = ent_list[k][1]
    /\ (/\ pc = "parenthesis"
        /\ ent_list[k][2] \in 0..Len(text)
        /\ BorderAt(Padded(text), FALSE, ent_list[k][2] + 1))
          => LET end == ent_list[k][2]
                 abbreviation ==
                    /\ end < Len(text)
                    /\ At(text, end) = "."
                    /\ \E q \in (end + 1)..(Len(text) - 1) : At(text, q) # " "
             IN  end_fixed = IF abbreviation THEN end + 1 ELSE end

\* C9 witness: an end index on the period of an abbreviation came back one
\* position later
C9_Witness ==
    /\ pc = "parenthesis"
    /\ ent_list[k][2] \in 0..(Len(text) - 1)
    /\ BorderAt(Padded(text), FALSE, ent_list[k][2] + 1)
    /\ At(text, ent_list[k][2]) = "."
    /\ end_fixed = ent_list[k][2] + 1

\* the j-th offset of the claimed order: 0, then at each distance first the
\* side of the mode (left for START, right for END), then the other side
ClaimedOffset(start, j) ==
    IF j = 1 THEN 0
    ELSE IF j % 2 = 0 THEN (IF start THEN -(j \div 2) ELSE j \div 2)
    ELSE (IF start THEN j \div 2 ELSE -(j \div 2))

\* C10: for an index inside the text the positions tested are index+0, -1, +1,
\* -2, +2, ... for START and index+0, +1, -1, +2, -2, ... for END, and the
\* border found is the first of them that passes the test: no border is
\* nearer, and one as near lies right of it for START, left of it for END.
C10_ProbeOrder ==
    (pc \in {"search", "found"} /\ Index \in 0..Len(text)) =>
      /\ \A j \in 1..Len(probes) : probes[j] = ClaimedOffset(i_is_start, j)
      /\ pc = "found" =>
           /\ i_corrected = i + probes[Len(probes)]
           /\ BorderAt(Padded(text), i_is_start, i_corrected)
           /\ \A j \in 1..(Len(probes) - 1) :
                 ~ BorderAt(Padded(text), i_is_start, i + probes[j])
           /\ \A q \in 0..(Len(text) + 1) :
                 (BorderAt(Padded(text), i_is_start, q) /\ q # i_corrected) =>
                    \/ Abs(q - i) > Abs(i_corrected - i)
                    \/ /\ Abs(q - i) = Abs(i_corrected - i)
                       /\ IF i_is_start THEN i_corrected < q ELSE i_corrected > q

\* C10 witness: two borders equally far from the index, one found
C10_Witness ==
    /\ pc = "found"
    /\ Index \in 0..Len(text)
    /\ Len(probes) >= 2
    /\ \E q \in 0..(Len(text) + 1) :
          /\ q # i_corrected
          /\ BorderAt(Padded(text), i_is_start, q)
          /\ Abs(q - i) = Abs(i_corrected - i)

---------------------------------------------------------------------------
(* Property of fix_parenthesis, checked under SpecParenthesis *)

\* C8: fix_parenthesis moves start one to the left exactly when start > 0, the
\* character before it is "(" and text[start:end] holds more ")" than "(";
\* it moves end one to the right exactly when end < len(text) - 1, the
\* character at it is ")" and text[start:end] holds more "(" than ")"; both
\* tests read the boundaries given, and nothing else changes.
C8_ParenthesisRepair ==
    pc = "parenthesis_done" =>
      LET start == ent_list[1][1]
          end == ent_list[1][2]
          sub == Slice(text, start, end)
          extend_left == /\ start > 0
                         /\ At(text, start - 1) = "("
                         /\ Count(sub, ")") > Count(sub, "(")
          extend_right == /\ end < Len(text) - 1
                          /\ At(text, end) = ")"
                          /\ Count(sub, "(") > Count(sub, ")")
      IN  /\ ent_list_new[1][1] = IF extend_left THEN start - 1 ELSE start
          /\ ent_list_new[1][2] = IF extend_right THEN end + 1 ELSE end
          /\ ent_list_new[1][3] = ent_list[1][3]

\* C8 witness: a span extended over the parenthesis before it
C8_Witness ==
    /\ pc = "parenthesis_done"
    /\ ent_list[1][1] < ent_list[1][2]
    /\ ent_list_new[1][1] = ent_list[1][1] - 1
    /\ ent_list_new[1][2] = ent_list[1][2]

---------------------------------------------------------------------------
(* Properties of remove_ner_noise, checked under SpecNoise *)

\* number, order, start and end of the spans are those of the input
SameSpans(out, in) ==
    /\ Len(out) = Len(in)
    /\ \A j \in 1..Len(in) : out[j][1] = in[j][1] /\ out[j][2] = in[j][2]

\* C5 (as claimed): remove_ner_noise keeps number, order, start and end of the
\* spans, and applied to its own result returns that result, for any labels of
\* letters, digits and hyphens.
C5_NoiseIdempotent ==
    /\ pc \in {"noise_once", "noise_twice"} => SameSpans(ent_list_new, ent_list)
    /\ pc = "noise_twice" => first_out = ent_list_new

\* C5 (amended): remove_ner_noise keeps number, order, start and end of the
\* spans, and applied to its own result it leaves every span unchanged whose
\* label held at most one hyphen.
C5_NoiseIdempotentOneHyphen ==
    /\ pc \in {"noise_once", "noise_twice"} => SameSpans(ent_list_new, ent_list)
    /\ pc = "noise_twice" =>
         /\ SameSpans(first_out, ent_list_new)
         /\ \A j \in 1..Len(ent_list) :
               Count(ent_list[j][3], Hyphen) <= 1 => first_out[j] = ent_list_new[j]

\* C5 witness: a label with one hyphen and a digit behind it was stripped
C5_Witness ==
    /\ pc = "noise_twice"
    /\ \E j \in 1..Len(ent_list) :
          /\ Count(ent_list[j][3], Hyphen) = 1
          /\ ent_list[j][3][Len(ent_list[j][3])] = Digit
          /\ ent_list_new[j][3] # ent_list[j][3]
          /\ first_out[j] = ent_list_new[j]

---------------------------------------------------------------------------
(* Property of deduplicate, checked under SpecDedup *)

\* (start, end, label) before (start, end, label)
TripleLess(x, y) ==
    \/ x[1] < y[1]
    \/ x[1] = y[1] /\ x[2] < y[2]
    \/ x[1] = y[1] /\ x[2] = y[2] /\ LabelLess(x[3], y[3])

\* out holds the triples of in, each once, ascending
Canonical(out, in) ==
    /\ Range(out) = Range(in)
    /\ \A j \in 1..(Len(out) - 1) : TripleLess(out[j], out[j + 1])

\* C6: deduplicate returns the distinct triples of its input, each once,
\* ascending by start, then end, then label; applied to its own result it
\* returns that result, and applied to a reordering of the input it returns
\* the same list.
C6_DedupCanonical ==
    /\ pc \in {"dedup_once", "dedup_twice", "dedup_permuted"}
          => Canonical(ent_list_new, ent_list)
    /\ pc \in {"dedup_twice", "dedup_permuted"} => first_out = ent_list_new
    /\ pc = "dedup_permuted" => other_out[2] = ent_list_new

\* C6 witness: a list with a duplicate, not in order, and a reordering of it
C6_Witness ==
    /\ pc = "dedup_permuted"
    /\ Len(ent_list) = 3
    /\ Len(ent_list_new) = 2
    /\ ent_list[1] # ent_list_new[1]
    /\ ent_list_new[1][1] = ent_list_new[2][1]
    /\ ent_list_new[1][2] = ent_list_new[2][2]
    /\ other_out[1] # ent_list

====
